---- MODULE Spec2Model ----
(***************************************************************************)
(* Model of django-rest-framework-bulk: the tolerant ("Easy") bulk create, *)
(* bulk update and bulk destroy handlers of rest_framework_bulk/mixins.py  *)
(* and the list serializers of rest_framework_bulk/serializers.py.         *)
(*                                                                         *)
(* The entity store is a sequence of rows [id, val] in the order the store *)
(* returns them.  A request is handled by one action, which runs the whole *)
(* handler: validation, save, and the assembly of the response.            *)
(*                                                                         *)
(* Python exceptions are modelled by an "exc" field: "none" when the call  *)
(* returned, otherwise the class of the exception that left it.            *)
(***************************************************************************)
EXTENDS Integers, Sequences, FiniteSets, TLC

VARIABLES store, allow_empty, req, pre, ser, resp, calls

vars == <<store, allow_empty, req, pre, ser, resp, calls>>

(***************************************************************************)
(* Bounds of the model.                                                    *)
(***************************************************************************)
\* lookup keys (primary keys) range over 0..MaxKey; 0 is the falsy key
MaxKey == 2
\* longest request list of a bulk create or bulk update
MaxLen == 3
\* longest list handed to a stand-alone serializer
MaxValLen == 2
\* number of is_valid calls made on a stand-alone serializer
MaxCalls == 2
\* longest ids query parameter, in characters
MaxIdsLen == 3
\* largest primary key the store hands out to a created row
MaxId == 3

Keys == 0..MaxKey

\* field values a record can carry: "bad" is rejected by the record validator
Data == {"a", "b", "bad"}

\* values sent in update records
UpdateData == {"a", "bad"}

\* an input record: has_id says whether the lookup-key field is present
Item(h, k, d) == [has_id |-> h, id |-> k, data |-> d]

CreateItems == {Item(FALSE, 0, d) : d \in Data}

UpdateItems == {Item(TRUE, k, d) : k \in Keys, d \in UpdateData}
                 \cup {Item(FALSE, 0, d) : d \in UpdateData}

SeqsUpTo(S, n) == UNION {[1..m -> S] : m \in 0..n}

\* request.data: a JSON array or a JSON object
ListBody(items) == [kind |-> "list", items |-> items]

ObjectBody(item) == [kind |-> "object", items |-> <<item>>]

\* characters of the ids query parameter
IdChars == {"1", "2", ",", "a"}

(***************************************************************************)
(* Error details.  A detail is a dict field -> [ErrorDetail]; it is        *)
(* modelled as a set of [field, code] pairs, {} being the empty dict.      *)
(***************************************************************************)
NoError == {}

RequiredError == {[field |-> "id", code |-> "required"]}

InvalidError == {[field |-> "data", code |-> "invalid"]}

NotAListError == {[field |-> "non_field_errors", code |-> "not_a_list"]}

EmptyError == {[field |-> "non_field_errors", code |-> "empty"]}

\* serializer._errors is a list of details or a single detail dict
ErrList(l) == [kind |-> "list", list |-> l, dict |-> NoError]

ErrDict(d) == [kind |-> "dict", list |-> <<>>, dict |-> d]

\* bool(errors)
Truthy(e) == IF e.kind = "list" THEN Len(e.list) > 0 ELSE e.dict # {}

(***************************************************************************)
(* The entity store and querysets.                                         *)
(***************************************************************************)
Row(k, v) == [id |-> k, val |-> v]

Ids(rows) == {rows[i].id : i \in 1..Len(rows)}

\* the rows of a queryset whose id is in S, in the queryset's order
FilterRows(rows, S) == SelectSeq(rows, LAMBDA r : r.id \in S)

RECURSIVE AscendingRows(_, _)
AscendingRows(S, k) ==
    IF k > MaxKey THEN <<>>
    ELSE (IF k \in S THEN <<Row(k, "init")>> ELSE <<>>) \o AscendingRows(S, k + 1)

\* a queryset object: oid is the identity of the Python object
QuerySet(oid, rows) == [oid |-> oid, rows |-> rows]

\* the filter backends of the view: none configured, or one keeping the ids in S
NoFilter == [kind |-> "none", keep |-> {}]

KeepFilter(S) == [kind |-> "keep", keep |-> S]

Filters == {NoFilter} \cup {KeepFilter(S) : S \in SUBSET Keys}

UpdateFilters == {NoFilter, KeepFilter(Keys \ {MaxKey})}

\* GenericAPIView.filter_queryset: with no backend the very same object comes back
filter_queryset(qs, f) ==
    IF f.kind = "none" THEN qs
    ELSE QuerySet(qs.oid + 1, FilterRows(qs.rows, f.keep))

\* child.to_representation(entity)
Rep(row) == [id |-> row.id, val |-> row.val]

\* Python's None where a representation is expected
NoneRep == [id |-> -1, val |-> "None"]

(***************************************************************************)
(* serializers.py                                                          *)
(***************************************************************************)
\* request.method of the view action that built the serializer
MethodOf(action) == IF action = "create" THEN "POST" ELSE "PUT"

\* serializer.instance: None, a queryset, or the list of saved entities
NoInstance == [kind |-> "none", rows |-> <<>>]

QsInstance(rows) == [kind |-> "qs", rows |-> rows]

ListInstance(rows) == [kind |-> "list", rows |-> rows]

\* self.child: the record serializer, and the entity its instance is bound to
NoChild == [bound |-> FALSE, id |-> 0]

BoundTo(k) == [bound |-> TRUE, id |-> k]

\* the outcome of a call, with self.child as the call leaves it: exc = "none"
\* when it returned
Returned(ret, errors, child) ==
    [exc |-> "none", detail |-> NoError, ret |-> ret, errors |-> errors,
     child |-> child]

Raised(exc, detail, child) ==
    [exc |-> exc, detail |-> detail, ret |-> <<>>, errors |-> <<>>,
     child |-> child]

NotRun == Raised("not run", NoError, NoChild)

\* a serializer built by get_serializer(instance, data=..., many=True)
NewSerializer(data, action, instance, allow) ==
    [initial_data |-> data, action |-> action, instance |-> instance,
     allow_empty |-> allow,
     has_vd |-> FALSE, vd |-> <<>>,
     has_errors |-> FALSE, errors |-> ErrList(<<>>),
     child |-> NoChild,
     tiv |-> NotRun]

\* BulkSerializerMixin.to_internal_value: the parent strips the read-only
\* lookup field, and it is put back for PUT and PATCH
BulkSerializerMixin_to_internal_value(item, method) ==
    IF method \in {"PUT", "PATCH"}
    THEN Item(item.has_id, item.id, item.data)
    ELSE Item(FALSE, 0, item.data)

\* child.run_validation(item): the record validator, which rejects "bad"
child_run_validation(item, method, child) ==
    IF item.data = "bad"
    THEN Raised("ValidationError", InvalidError, child)
    ELSE Returned(<<BulkSerializerMixin_to_internal_value(item, method)>>, <<>>,
                  child)

\* the loop of EasyBulkListSerializer.to_internal_value, from item i on; the
\* try catches ValidationError only, so a failed self.instance.get leaves the
\* loop and the method
RECURSIVE tiv_loop(_, _, _, _, _, _)
tiv_loop(s, items, i, ret, errors, child) ==
    IF i > Len(items) THEN Returned(ret, errors, child)
    ELSE
      LET item == items[i] IN
      IF s.action # "create" /\ ~item.has_id
      THEN tiv_loop(s, items, i + 1, ret, Append(errors, RequiredError), child)
      ELSE IF s.action # "create" /\ item.id \notin Ids(s.instance.rows)
      THEN Raised("DoesNotExist", NoError, child)
      ELSE
        LET bound == IF s.action # "create" THEN BoundTo(item.id) ELSE child
            validated == child_run_validation(item, MethodOf(s.action), bound)
        IN
        IF validated.exc = "ValidationError"
        THEN tiv_loop(s, items, i + 1, ret, Append(errors, validated.detail), bound)
        ELSE tiv_loop(s, items, i + 1, ret \o validated.ret,
                      Append(errors, NoError), bound)

\* any(errors) over a list of details
AnyError(errors) == \E i \in 1..Len(errors) : errors[i] # NoError

\* to_internal_value as the strict list serializer does it: the first invalid
\* record raises
to_internal_value_strict(s, data) ==
    LET r == tiv_loop(s, data.items, 1, <<>>, <<>>, s.child) IN
    IF data.kind # "list"
    THEN Raised("ValidationError", NotAListError, s.child)
    ELSE IF ~s.allow_empty /\ Len(data.items) = 0
    THEN Raised("ValidationError", EmptyError, s.child)
    ELSE IF r.exc = "none" /\ AnyError(r.errors)
    THEN Raised("ValidationError",
                r.errors[CHOOSE i \in 1..Len(r.errors) :
                           /\ r.errors[i] # NoError
                           /\ \A j \in 1..(i - 1) : r.errors[j] = NoError],
                r.child)
    ELSE r

\* EasyBulkListSerializer.to_internal_value
to_internal_value(s, data) ==
    IF data.kind # "list"
    THEN Raised("ValidationError", NotAListError, s.child)
    ELSE IF ~s.allow_empty /\ Len(data.items) = 0
    THEN Raised("ValidationError", EmptyError, s.child)
    ELSE tiv_loop(s, data.items, 1, <<>>, <<>>, s.child)

\* EasyBulkListSerializer.run_validation: the body is never None or absent,
\* and no list-level validators are declared
run_validation(s, data) == to_internal_value(s, data)

\* the try block of is_valid, entered when _validated_data is not yet set
validate_once(s, raise_exception) ==
    LET result == run_validation(s, s.initial_data) IN
    IF result.exc = "ValidationError"
    THEN [s EXCEPT !.has_vd = raise_exception, !.vd = <<>>,
                   !.has_errors = TRUE, !.errors = ErrDict(result.detail),
                   !.child = result.child, !.tiv = result]
    ELSE IF AnyError(result.errors)
    THEN [s EXCEPT !.has_vd = TRUE,
                   !.vd = IF raise_exception THEN <<>> ELSE result.ret,
                   !.has_errors = TRUE, !.errors = ErrList(result.errors),
                   !.child = result.child, !.tiv = result]
    ELSE [s EXCEPT !.has_vd = TRUE, !.vd = result.ret,
                   !.has_errors = TRUE, !.errors = ErrList(<<>>),
                   !.child = result.child, !.tiv = result]

\* is_valid with the else branch of the try run on every call: a second call
\* clears _errors
is_valid_resets(s, raise_exception) ==
    IF ~s.has_vd /\ run_validation(s, s.initial_data).exc = "DoesNotExist"
    THEN [ser |-> [s EXCEPT !.child = run_validation(s, s.initial_data).child,
                            !.tiv = run_validation(s, s.initial_data)],
          out |-> "DoesNotExist"]
    ELSE
      LET t == IF s.has_vd THEN [s EXCEPT !.errors = ErrList(<<>>)]
               ELSE validate_once(s, raise_exception) IN
      [ser |-> t,
       out |-> IF Truthy(t.errors) /\ raise_exception THEN "ValidationError"
               ELSE IF Truthy(t.errors) THEN "False" ELSE "True"]

\* EasyBulkListSerializer.is_valid: the serializer after the call and what the
\* call gave: "True", "False", or the exception that left it
is_valid(s, raise_exception) ==
    IF ~s.has_vd /\ run_validation(s, s.initial_data).exc = "DoesNotExist"
    THEN [ser |-> [s EXCEPT !.child = run_validation(s, s.initial_data).child,
                            !.tiv = run_validation(s, s.initial_data)],
          out |-> "DoesNotExist"]
    ELSE
      LET t == IF s.has_vd THEN s ELSE validate_once(s, raise_exception) IN
      [ser |-> t,
       out |-> IF Truthy(t.errors) /\ raise_exception THEN "ValidationError"
               ELSE IF Truthy(t.errors) THEN "False" ELSE "True"]

\* the result of a call that may change the store
Saved(exc, rows, st) == [exc |-> exc, rows |-> rows, store |-> st]

\* the dict comprehension of update: for each key the data of the last record
\* carrying it
AttrsById(all_validated_data, k) ==
    LET last == CHOOSE i \in 1..Len(all_validated_data) :
                    /\ all_validated_data[i].id = k
                    /\ \A j \in (i + 1)..Len(all_validated_data) :
                           all_validated_data[j].id # k
    IN  all_validated_data[last]

\* child.update(obj, attrs) on every row of objects, in the order of objects
RECURSIVE update_loop(_, _, _, _, _)
update_loop(objects, i, all_validated_data, updated, st) ==
    IF i > Len(objects) THEN Saved("none", updated, st)
    ELSE
      LET obj == objects[i]
          new == Row(obj.id, AttrsById(all_validated_data, obj.id).data)
          st2 == [j \in 1..Len(st) |-> IF st[j].id = obj.id THEN new ELSE st[j]]
      IN  update_loop(objects, i + 1, all_validated_data, Append(updated, new), st2)

\* BulkListSerializer.update(queryset, all_validated_data)
update(queryset, all_validated_data, st) ==
    LET n == Len(all_validated_data)
        keys == {all_validated_data[i].id : i \in 1..n}
        objects_to_update == FilterRows(queryset, keys)
    IN
    IF \E i \in 1..n : ~all_validated_data[i].has_id
    THEN Saved("KeyError", <<>>, st)
    ELSE IF \E k \in keys : k = 0
    THEN Saved("ValidationError", <<>>, st)
    ELSE IF Cardinality(keys) # Len(objects_to_update)
    THEN Saved("ValidationError", <<>>, st)
    ELSE update_loop(objects_to_update, 1, all_validated_data, <<>>, st)

\* the primary key the store gives the next created row
NextId(st) == 1 + (CHOOSE m \in Ids(st) \cup {0} : \A k \in Ids(st) : k <= m)

\* ListSerializer.create: child.create(attrs) for each record, in order
RECURSIVE create_loop(_, _, _, _)
create_loop(validated_data, i, created, st) ==
    IF i > Len(validated_data) THEN Saved("none", created, st)
    ELSE
      LET new == Row(NextId(st), validated_data[i].data) IN
      create_loop(validated_data, i + 1, Append(created, new), Append(st, new))

\* ListSerializer.save, reached through perform_create and perform_update:
\* reading validated_data asserts that is_valid has set it
save(s, st) ==
    IF ~s.has_vd THEN Saved("AssertionError", <<>>, st)
    ELSE IF s.instance.kind # "none"
    THEN update(s.instance.rows, s.vd, st)
    ELSE create_loop(s.vd, 1, <<>>, st)

\* the positions of self._errors that hold an error (0-based in the code)
ErrorPositions(e) ==
    IF e.kind = "list" THEN {i \in 1..Len(e.list) : e.list[i] # NoError}
    ELSE 1..Cardinality({x.field : x \in e.dict})

\* EasyBulkListSerializer.to_representation
to_representation(s, rows) ==
    LET idx == IF Len(rows) > 0 /\ s.has_errors
               THEN {i \in 1..Len(rows) : i \notin ErrorPositions(s.errors)}
               ELSE 1..Len(rows)
        kept == SelectSeq([i \in 1..Len(rows) |-> [i |-> i, row |-> rows[i]]],
                          LAMBDA x : x.i \in idx)
    IN  [i \in 1..Len(kept) |-> Rep(kept[i].row)]

\* EasyBulkListSerializer.data, with allow_errors left at its default True;
\* validated records that were never saved are represented without a key
serializer_data(s) ==
    IF s.instance.kind # "none" THEN to_representation(s, s.instance.rows)
    ELSE IF s.has_vd
    THEN to_representation(s, [i \in 1..Len(s.vd) |-> Row(NoneRep.id, s.vd[i].data)])
    ELSE <<>>

(***************************************************************************)
(* mixins.py                                                               *)
(***************************************************************************)
\* _get_full_details(error_list) for every key of one error dict
FullDetails(error) ==
    {[field |-> e.field, message |-> e.code, code |-> e.code] : e \in error}

Failure(error) ==
    [successful |-> FALSE, resource |-> NoneRep, errors |-> FullDetails(error)]

Success(rep) == [successful |-> TRUE, resource |-> rep, errors |-> {}]

\* build_multi_status_response(data, errors), errors being a list
RECURSIVE build_multi_status_response(_, _)
build_multi_status_response(data, errors) ==
    IF Len(errors) = 0 THEN <<>>
    ELSE IF Head(errors) # NoError
    THEN <<Failure(Head(errors))>> \o build_multi_status_response(data, Tail(errors))
    ELSE IF Len(data) > 0
    THEN <<Success(Head(data))>> \o build_multi_status_response(Tail(data), Tail(errors))
    ELSE <<Success(NoneRep)>> \o build_multi_status_response(data, Tail(errors))

\* a response, or the exception that left the handler (exc # "none")
Response(status, kind, body) ==
    [status |-> status, kind |-> kind, body |-> body, exc |-> "none"]

\* an exception leaving the view: DRF's handler answers an APIException with its
\* status code, anything else is a server error
Uncaught(exc) ==
    [status |-> IF exc \in {"ValidationError", "ParseError"} THEN 400 ELSE 500,
     kind |-> "error", body |-> <<>>, exc |-> exc]

NoResponse == Response(0, "none", <<>>)

\* what a handler leaves behind: the response, the store and the serializer
Handled(r, st, s) == [resp |-> r, store |-> st, ser |-> s]

\* GenericAPIView.get_queryset: a fresh queryset over the whole store
get_queryset(st) == QuerySet(1, st)

\* CreateModelMixin.create, which EasyBulkCreateModelMixin.create delegates to
\* when the body is not a list: strict validation of the one record
single_create(body, st, allow) ==
    LET s == NewSerializer(body, "create", NoInstance, allow)
        validated == child_run_validation(body.items[1], "POST", NoChild)
    IN
    IF validated.exc # "none" THEN Handled(Uncaught("ValidationError"), st, s)
    ELSE LET sv == create_loop(validated.ret, 1, <<>>, st) IN
         Handled(Response(201, "single", <<Rep(sv.rows[1])>>), sv.store,
                 [s EXCEPT !.instance = ListInstance(sv.rows)])

\* the part of the two Easy handlers after is_valid: keep the errors, reset
\* serializer._errors, save, and build the response
respond(s1, st, escalate, ok_status) ==
    LET errors == IF Truthy(s1.errors) THEN s1.errors ELSE ErrList(<<>>)
        s2 == IF Truthy(s1.errors) THEN [s1 EXCEPT !.errors = ErrList(<<>>)] ELSE s1
    IN
    IF escalate /\ errors.kind = "dict"
                /\ \E e \in errors.dict :
                      e.field = "non_field_errors" /\ e.code = "not_a_list"
    THEN Handled(Uncaught("ValidationError"), st, s2)
    ELSE
      LET sv == save(s2, st)
          s3 == [s2 EXCEPT !.instance = ListInstance(sv.rows)]
      IN
      IF sv.exc # "none" THEN Handled(Uncaught(sv.exc), sv.store, s2)
      ELSE IF Truthy(errors) /\ errors.kind = "dict"
      THEN Handled(Uncaught("AttributeError"), sv.store, s3)
      ELSE IF Truthy(errors)
      THEN Handled(Response(207, "multi",
                            build_multi_status_response(serializer_data(s3), errors.list)),
                   sv.store, s3)
      ELSE Handled(Response(ok_status, "plain", serializer_data(s3)), sv.store, s3)

\* EasyBulkCreateModelMixin.create
create(body, st, allow) ==
    IF body.kind # "list" THEN single_create(body, st, allow)
    ELSE
      LET s0 == NewSerializer(body, "create", NoInstance, allow)
          v == is_valid(s0, FALSE)
      IN  respond(v.ser, st, FALSE, 201)

\* EasyBulkUpdateModelMixin.bulk_update
bulk_update(body, f, st, allow) ==
    LET instance == filter_queryset(get_queryset(st), f)
        s0 == NewSerializer(body, "bulk_update", QsInstance(instance.rows), allow)
        v == is_valid(s0, FALSE)
    IN
    IF v.out = "DoesNotExist" THEN Handled(Uncaught("DoesNotExist"), st, v.ser)
    ELSE respond(v.ser, st, TRUE, 200)

\* allow_bulk_destroy comparing the contents (qs != filtered) instead of the
\* objects
allow_bulk_destroy_by_content(qs, filtered) == qs.rows # filtered.rows

\* BulkDestroyModelMixin.allow_bulk_destroy: qs is not filtered
allow_bulk_destroy(qs, filtered) == qs.oid # filtered.oid

\* BulkDestroyModelMixin.perform_bulk_destroy: instance.delete() for each object
RECURSIVE perform_bulk_destroy(_, _)
perform_bulk_destroy(objects, st) ==
    IF Len(objects) = 0 THEN st
    ELSE perform_bulk_destroy(Tail(objects),
                              SelectSeq(st, LAMBDA r : r.id # Head(objects).id))

\* the part the two bulk_destroy handlers share
destroy_filtered(qs, f, st, s) ==
    LET filtered == filter_queryset(qs, f) IN
    IF ~allow_bulk_destroy(qs, filtered)
    THEN Handled(Response(400, "empty", <<>>), st, s)
    ELSE Handled(Response(204, "empty", <<>>), perform_bulk_destroy(filtered.rows, st), s)

\* BulkDestroyModelMixin.bulk_destroy
bulk_destroy(f, st, s) == destroy_filtered(get_queryset(st), f, st, s)

IsDigit(c) == c \in {"0", "1", "2", "3", "4", "5", "6", "7", "8", "9"}

DigitVal(c) ==
    CASE c = "0" -> 0 [] c = "1" -> 1 [] c = "2" -> 2 [] c = "3" -> 3 [] c = "4" -> 4
      [] c = "5" -> 5 [] c = "6" -> 6 [] c = "7" -> 7 [] c = "8" -> 8 [] c = "9" -> 9

\* re.match(r'^\d+(,\d+)*$', ids): digits separated by single commas (no
\* string of IdChars ends in a newline, which $ would let through)
MatchesIds(ids) ==
    /\ Len(ids) > 0
    /\ \A i \in 1..Len(ids) : IsDigit(ids[i]) \/ ids[i] = ","
    /\ IsDigit(ids[1]) /\ IsDigit(ids[Len(ids)])
    /\ \A i \in 1..(Len(ids) - 1) : ~(ids[i] = "," /\ ids[i + 1] = ",")

\* ids.split(','), each piece read as the integer the id__in lookup compares with
RECURSIVE SplitIds(_, _, _)
SplitIds(ids, i, acc) ==
    IF i > Len(ids) THEN {acc}
    ELSE IF ids[i] = "," THEN {acc} \cup SplitIds(ids, i + 1, 0)
    ELSE SplitIds(ids, i + 1, 10 * acc + DigitVal(ids[i]))

\* the ids query parameter: absent, or a string
NoIds == [present |-> FALSE, chars |-> <<>>]

IdsParam(chars) == [present |-> TRUE, chars |-> chars]

\* EasyBulkDestroyModelMixin.bulk_destroy
easy_bulk_destroy(ids, f, st, s) ==
    IF ids.present /\ Len(ids.chars) > 0 /\ ~MatchesIds(ids.chars)
    THEN Handled(Uncaught("ParseError"), st, s)
    ELSE
      LET list_id == IF ids.present /\ Len(ids.chars) > 0
                     THEN SplitIds(ids.chars, 1, 0) ELSE {}
          qs == QuerySet(get_queryset(st).oid + 1, FilterRows(st, list_id))
      IN  destroy_filtered(qs, f, st, s)

(***************************************************************************)
(* The state machine.                                                      *)
(***************************************************************************)
Request(op, body, f, ids, raise) ==
    [op |-> op, body |-> body, filter |-> f, ids |-> ids, raise_exception |-> raise]

NoRequest == Request("none", ListBody(<<>>), NoFilter, NoIds, FALSE)

CreateBodies ==
    {ListBody(l) : l \in SeqsUpTo(CreateItems, MaxLen)}
        \cup {ObjectBody(i) : i \in CreateItems}

UpdateBodies ==
    {ListBody(l) : l \in SeqsUpTo(UpdateItems, MaxLen)}
        \cup {ObjectBody(i) : i \in UpdateItems}

InitStores == {AscendingRows(S, 0) : S \in {Keys} \cup {Keys \ {k} : k \in Keys}}

Init ==
    /\ store \in InitStores
    /\ allow_empty \in BOOLEAN
    /\ req = NoRequest
    /\ pre = store
    /\ ser = NewSerializer(ListBody(<<>>), "create", NoInstance, allow_empty)
    /\ resp = NoResponse
    /\ calls = <<>>

\* the view is idle: the previous response has been sent
Idle == req.op = "none"

\* a handler runs from the request to its response
Serve(r, h) ==
    /\ req' = r
    /\ pre' = store
    /\ store' = h.store
    /\ ser' = h.ser
    /\ resp' = h.resp
    /\ calls' = <<>>
    /\ UNCHANGED allow_empty

\* POST to the collection
Create ==
    /\ Idle
    /\ \E body \in CreateBodies :
        LET h == create(body, store, allow_empty) IN
        /\ \A k \in Ids(h.store) : k <= MaxId
        /\ Serve(Request("create", body, NoFilter, NoIds, FALSE), h)

\* PUT to the collection, the body drawn from bodies
UpdateRequest(bodies) ==
    /\ Idle
    /\ \E body \in bodies, f \in UpdateFilters :
        Serve(Request("bulk_update", body, f, NoIds, FALSE),
              bulk_update(body, f, store, allow_empty))

BulkUpdate == UpdateRequest(UpdateBodies)

\* DELETE to the collection of a view with BulkDestroyModelMixin.bulk_destroy
BulkDestroy ==
    /\ Idle
    /\ \E f \in Filters :
        Serve(Request("bulk_destroy", ListBody(<<>>), f, NoIds, FALSE),
              bulk_destroy(f, store, ser))

\* DELETE to the collection of a view with EasyBulkDestroyModelMixin.bulk_destroy
EasyBulkDestroy ==
    /\ Idle
    /\ \E f \in Filters,
       ids \in {NoIds} \cup {IdsParam(c) : c \in SeqsUpTo(IdChars, MaxIdsLen)} :
        Serve(Request("easy_bulk_destroy", ListBody(<<>>), f, ids, FALSE),
              easy_bulk_destroy(ids, f, store, ser))

ValidateBodies ==
    {ListBody(l) : l \in SeqsUpTo(UpdateItems, MaxValLen)}
        \cup {ObjectBody(i) : i \in UpdateItems}

\* PUT to the collection with a short body
BulkUpdateShort == UpdateRequest(ValidateBodies)

\* get_serializer(..., data=..., many=True) outside a handler, for a create or
\* an update action, to be validated with the given raise_exception
Construct ==
    /\ Idle
    /\ \E body \in ValidateBodies, action \in {"create", "bulk_update"},
       raise \in BOOLEAN :
        /\ req' = Request("serializer", body, NoFilter, NoIds, raise)
        /\ ser' = NewSerializer(body, action,
                                IF action = "create" THEN NoInstance
                                ELSE QsInstance(store), allow_empty)
        /\ pre' = store
        /\ resp' = NoResponse
        /\ calls' = <<>>
        /\ UNCHANGED <<store, allow_empty>>

\* what a caller of is_valid observes
Observation(v) ==
    [out |-> v.out, has_vd |-> v.ser.has_vd, vd |-> v.ser.vd,
     has_errors |-> v.ser.has_errors, errors |-> v.ser.errors]

\* serializer.is_valid(raise_exception=...) on the constructed serializer
IsValid ==
    /\ req.op = "serializer"
    /\ Len(calls) < MaxCalls
    /\ LET v == is_valid(ser, req.raise_exception) IN
        /\ ser' = v.ser
        /\ calls' = Append(calls, Observation(v))
    /\ UNCHANGED <<store, allow_empty, req, pre, resp>>

\* the response is sent and the objects of the request are dropped
Finish ==
    /\ ~Idle
    /\ req' = NoRequest
    /\ pre' = store
    /\ ser' = NewSerializer(ListBody(<<>>), "create", NoInstance, allow_empty)
    /\ resp' = NoResponse
    /\ calls' = <<>>
    /\ UNCHANGED <<store, allow_empty>>

Next ==
    \/ Create
    \/ BulkUpdate
    \/ BulkDestroy
    \/ EasyBulkDestroy
    \/ Construct
    \/ IsValid
    \/ Finish

Spec == Init /\ [][Next]_vars

NextUpdate == BulkUpdateShort \/ Finish

SpecUpdate == Init /\ [][NextUpdate]_vars

NextDestroy == BulkDestroy \/ EasyBulkDestroy \/ Finish

SpecDestroy == Init /\ [][NextDestroy]_vars

NextValidate == Construct \/ IsValid \/ Finish

SpecValidate == Init /\ [][NextValidate]_vars

(***************************************************************************)
(* Properties.  They read the last request (req), the store before it      *)
(* (pre) and after it (store), the serializer it used (ser) and its        *)
(* response (resp).                                                        *)
(***************************************************************************)
L == req.body.items

IsListRequest(ops) == req.op \in ops /\ req.body.kind = "list"

\* the rows of the queryset the update is restricted to
FilteredPre ==
    IF req.filter.kind = "none" THEN pre
    ELSE SelectSeq(pre, LAMBDA r : r.id \in req.filter.keep)

\* what validating record i alone must give
ExpectedDetail(i) ==
    IF req.op = "bulk_update" /\ ~L[i].has_id THEN RequiredError
    ELSE IF L[i].data = "bad" THEN InvalidError
    ELSE NoError

ValidPositions == {i \in 1..Len(L) : ExpectedDetail(i) = NoError}

ValidRecords ==
    SelectSeq(L, LAMBDA it : (req.op = "create" \/ it.has_id) /\ it.data # "bad")

\* the number of valid records among the first i
Rank(i) == Cardinality({j \in ValidPositions : j <= i})

\* a lookup key of the request that cannot be resolved: a record carries a key
\* no row of the filtered queryset has, or a valid record carries a falsy key
IdentityFailure ==
    \/ \E i \in 1..Len(L) : L[i].has_id /\ L[i].id \notin Ids(FilteredPre)
    \/ \E i \in ValidPositions : L[i].id = 0

\* C1: tolerant validation of a list never stops at a record: unless the list
\* is rejected for its shape, it yields one outcome per record, the error
\* detail of an invalid record and {} for a valid one, and the valid records in
\* input order, for create and for update.
C1_TolerantValidationCoversEveryRecord ==
    (IsListRequest({"create", "bulk_update"}) /\ ser.tiv.exc # "ValidationError")
        => /\ ser.tiv.exc = "none"
           /\ Len(ser.tiv.errors) = Len(L)
           /\ \A i \in 1..Len(L) : ser.tiv.errors[i] = ExpectedDetail(i)
           /\ ser.tiv.ret = ValidRecords

\* C1 on the create path, where no lookup is made: it holds.
C1_OnCreate ==
    req.op = "create" => C1_TolerantValidationCoversEveryRecord

\* the rows the request added to the store
Created == SubSeq(store, Len(pre) + 1, Len(store))

\* the store holds the rows it had, then one new row per valid record, in order
CreatedExactlyValid ==
    /\ Len(store) = Len(pre) + Len(ValidRecords)
    /\ SubSeq(store, 1, Len(pre)) = pre
    /\ \A k \in 1..Len(Created) :
          /\ Created[k].val = ValidRecords[k].data
          /\ Created[k].id \notin Ids(pre)
          /\ \A j \in 1..(k - 1) : Created[j].id # Created[k].id

CreateResponseMatches ==
    IF ValidPositions = 1..Len(L)
    THEN /\ resp.status = 201 /\ resp.kind = "plain"
         /\ resp.body = [k \in 1..Len(Created) |-> Rep(Created[k])]
    ELSE /\ resp.status = 207 /\ resp.kind = "multi"
         /\ Len(resp.body) = Len(L)
         /\ \A i \in 1..Len(L) :
               IF i \in ValidPositions
               THEN resp.body[i] = Success(Rep(Created[Rank(i)]))
               ELSE resp.body[i] = Failure(ExpectedDetail(i))

\* C2: for every list body, create makes exactly the valid records, once each
\* and in order, and answers 201 with their representations when no record is
\* invalid, 207 with one element per input position otherwise.
C2_CreateEveryListBody ==
    IsListRequest({"create"}) => CreatedExactlyValid /\ CreateResponseMatches

\* C2 for the list bodies the shape checks accept: it holds.
C2_OnAcceptedListBody ==
    (IsListRequest({"create"}) /\ (Len(L) > 0 \/ allow_empty))
        => CreatedExactlyValid /\ CreateResponseMatches

\* C3: a bulk update whose valid records carry a falsy key, or name more
\* distinct keys than the filtered queryset matches, ends with a fatal
\* validation error and updates nothing.
C3_IdentityFailureIsFatalValidationError ==
    (/\ IsListRequest({"bulk_update"})
     /\ \/ \E i \in ValidPositions : L[i].id = 0
        \/ Cardinality({L[i].id : i \in ValidPositions} \cap Ids(FilteredPre))
              < Cardinality({L[i].id : i \in ValidPositions}))
        => resp.exc = "ValidationError" /\ resp.status = 400 /\ store = pre

\* C3 without the kind of the failure: the request fails and nothing is
\* updated.  It holds.
C3_NoPartialUpdate ==
    (IsListRequest({"bulk_update"}) /\ IdentityFailure)
        => resp.kind = "error" /\ store = pre

\* the queryset a destroy handler hands to filter_queryset
DestroyScope ==
    IF req.op = "bulk_destroy" THEN pre
    ELSE IF req.ids.present /\ Len(req.ids.chars) > 0
    THEN SelectSeq(pre, LAMBDA r : r.id \in SplitIds(req.ids.chars, 1, 0))
    ELSE <<>>

\* the rows filter_queryset returns for it
DestroyFiltered ==
    IF req.filter.kind = "none" THEN DestroyScope
    ELSE SelectSeq(DestroyScope, LAMBDA r : r.id \in req.filter.keep)

\* C4: when filter_queryset returns the object it was given, bulk_destroy
\* answers 400 and deletes nothing; when it returns another object, bulk_destroy
\* answers 204 and the rows deleted are exactly the filtered ones.
C4_DestructiveScopeGuard ==
    (req.op \in {"bulk_destroy", "easy_bulk_destroy"} /\ resp.exc = "none")
        => IF req.filter.kind = "none"
           THEN resp.status = 400 /\ store = pre
           ELSE /\ resp.status = 204
                /\ store = SelectSeq(pre, LAMBDA r : r.id \notin Ids(DestroyFiltered))

\* a filtered bulk destroy that deleted some rows and left others
C4_Witness ==
    /\ req.op \in {"bulk_destroy", "easy_bulk_destroy"}
    /\ req.filter.kind = "keep"
    /\ resp.status = 204
    /\ Len(store) > 0
    /\ Len(store) < Len(pre)

\* C5: a bulk update whose body is not a list, and a bulk create or update
\* whose body is an empty list while empty lists are disallowed, end with a
\* validation error answered 400, and nothing is created or updated.
C5_ShapeErrorsAreFatalValidationErrors ==
    (\/ req.op = "bulk_update" /\ req.body.kind # "list"
     \/ IsListRequest({"create", "bulk_update"}) /\ Len(L) = 0 /\ ~allow_empty)
        => resp.exc = "ValidationError" /\ resp.status = 400 /\ store = pre

\* C5 for the body that is not a list, and the mutation-free half of C5 for
\* every shape error: they hold.
C5_NotAListAndNoMutation ==
    /\ (req.op = "bulk_update" /\ req.body.kind # "list")
           => resp.exc = "ValidationError" /\ resp.status = 400
    /\ (req.op \in {"create", "bulk_update"} /\ ser.tiv.exc = "ValidationError")
           => resp.kind = "error" /\ store = pre

\* C6: the responses of a bulk update follow input order: the k-th element of
\* a 200 response represents the entity of the k-th surviving record, and the
\* resource at a successful position i of a 207 response the entity of record i.
\* It is stated for requests whose valid records carry distinct keys.
C6_UpdateResponseInInputOrder ==
    (/\ IsListRequest({"bulk_update"})
     /\ \A i, j \in ValidPositions : i # j => L[i].id # L[j].id)
        => /\ (resp.status = 200 /\ resp.exc = "none")
                 => \A k \in 1..Len(resp.body) :
                        k <= Len(ValidRecords)
                            /\ resp.body[k].id = ValidRecords[k].id
           /\ resp.status = 207
                 => \A i \in 1..Len(resp.body) :
                        resp.body[i].successful
                            => resp.body[i].resource.id = L[i].id

\* C7 as stated: an update request holding a record without the lookup key is
\* answered with multi-status, that record's position carrying the
\* required-field error and every record having been validated.
C7_MissingKeyAlwaysMultiStatus ==
    (IsListRequest({"bulk_update"}) /\ \E i \in 1..Len(L) : ~L[i].has_id)
        => /\ resp.status = 207
           /\ ser.tiv.exc = "none" /\ Len(ser.tiv.errors) = Len(L)
           /\ \A i \in 1..Len(L) :
                 ~L[i].has_id => resp.body[i] = Failure(RequiredError)

\* C7 amended: an update request holding a record without the lookup key is
\* answered with multi-status, that position carrying the required-field error
\* under the lookup-key attribute and every other position the outcome of its
\* own record, unless a lookup key of the request cannot be resolved; then the
\* request fails as a whole and nothing is updated.
C7_MissingKeyIsPerRecordFailure ==
    (IsListRequest({"bulk_update"}) /\ \E i \in 1..Len(L) : ~L[i].has_id)
        => IF IdentityFailure
           THEN resp.kind = "error" /\ store = pre
           ELSE /\ resp.status = 207 /\ resp.kind = "multi"
                /\ ser.tiv.exc = "none"
                /\ Len(resp.body) = Len(L)
                /\ \A i \in 1..Len(L) :
                      /\ ser.tiv.errors[i] = ExpectedDetail(i)
                      /\ resp.body[i].successful = (i \in ValidPositions)
                      /\ ~L[i].has_id => resp.body[i] = Failure(RequiredError)

\* a multi-status answer to [record without key, valid record]
C7_Witness ==
    /\ IsListRequest({"bulk_update"})
    /\ resp.status = 207
    /\ \E i, j \in 1..Len(L) :
          /\ ~L[i].has_id /\ resp.body[i] = Failure(RequiredError)
          /\ i < j /\ resp.body[j].successful /\ store # pre

\* C8: a malformed ids parameter is rejected with ParseError and nothing is
\* deleted; a well-formed one selects the listed entities intersected with the
\* filtered queryset, which a successful destroy deletes; without an ids
\* parameter the destroy applies to the full filtered queryset.
C8_DestroySelection ==
    req.op = "easy_bulk_destroy"
        => LET given == req.ids.present /\ Len(req.ids.chars) > 0
               kept == IF req.filter.kind = "none" THEN Ids(pre)
                       ELSE Ids(pre) \cap req.filter.keep
               selected == IF given THEN kept \cap SplitIds(req.ids.chars, 1, 0)
                           ELSE kept
           IN  IF given /\ ~MatchesIds(req.ids.chars)
               THEN resp.exc = "ParseError" /\ store = pre
               ELSE /\ resp.exc = "none"
                    /\ resp.status = 204
                          => store = SelectSeq(pre, LAMBDA r : r.id \notin selected)

\* C8 when an ids parameter is given: it holds.
C8_WithIdsParameter ==
    (req.op = "easy_bulk_destroy" /\ req.ids.present /\ Len(req.ids.chars) > 0)
        => C8_DestroySelection

\* C9: a second is_valid call on the same serializer, nothing having changed
\* in between, gives what the first gave: the same return value or exception,
\* the same errors at the same positions and the same validated data.
C9_RevalidationIsIdempotent ==
    req.op = "serializer"
        => \A i \in 1..(Len(calls) - 1) : calls[i + 1] = calls[i]

\* two calls on a list mixing a valid and an invalid record
C9_Witness ==
    /\ req.op = "serializer"
    /\ Len(calls) >= 2
    /\ calls[2].out = "False"
    /\ calls[2].errors.kind = "list"
    /\ Len(calls[2].vd) > 0

\* C10: in a multi-status answer to a bulk update the update produced one
\* representation per position without an error: every successful element
\* carries a resource and none is left over.
C10_OneResourcePerSuccessfulPosition ==
    (IsListRequest({"bulk_update"}) /\ resp.status = 207)
        => /\ Len(ser.instance.rows)
                 = Cardinality({i \in 1..Len(resp.body) : resp.body[i].successful})
           /\ \A i \in 1..Len(resp.body) :
                 resp.body[i].successful => resp.body[i].resource # NoneRep

====
